---- MODULE Spec2Model ----
(***************************************************************************)
(* TrajectoryConstraintsRemover: compilation of PDDL3 trajectory           *)
(* constraints (always, sometime, at-most-once, sometime-before,           *)
(* sometime-after) into monitoring atoms, added preconditions, conditional *)
(* effects and goals.                                                      *)
(*                                                                         *)
(* Expressions are records [op, name, args]; a grounded boolean state is   *)
(* the set of the fluents that are true in it.                             *)
(***************************************************************************)
EXTENDS Naturals, Sequences, FiniteSets, TLC

VARIABLES
    problem,                 \* the problem handed to compile (grounded)
    pc,                      \* "ready" | "compiled" | "failed"
    monitoring_atom_dict,    \* self._monitoring_atom_dict: constraint -> monitor name
    result,                  \* outcome of the last compile call
    traj,                    \* states visited on the original grounded problem
    outState,                \* current state of the output problem
    outOk                    \* the plan so far is executable in the output problem

vars == <<problem, pc, monitoring_atom_dict, result, traj, outState, outOk>>

---------------------------------------------------------------------------
(* Monitor name tags.                                                      *)
HOLD == "hold"
SEEN_PHI == "seen-phi"
SEEN_PSI == "seen-psi"
SEPARATOR == "-"

---------------------------------------------------------------------------
(* Expression substrate: constructors of the expression manager.           *)

TT == [op |-> "true", name |-> "", args |-> <<>>]
FF == [op |-> "false", name |-> "", args |-> <<>>]
FluentExp(n) == [op |-> "fluent", name |-> n, args |-> <<>>]
Not(x) == [op |-> "not", name |-> "", args |-> <<x>>]

\* And()/Or() of no argument is the neutral constant, of one argument the
\* argument itself.
And(s) ==
    IF Len(s) = 0 THEN TT
    ELSE IF Len(s) = 1 THEN s[1]
    ELSE [op |-> "and", name |-> "", args |-> s]

Or(s) ==
    IF Len(s) = 0 THEN FF
    ELSE IF Len(s) = 1 THEN s[1]
    ELSE [op |-> "or", name |-> "", args |-> s]

Always(phi) == [op |-> "always", name |-> "", args |-> <<phi>>]
Sometime(phi) == [op |-> "sometime", name |-> "", args |-> <<phi>>]
AtMostOnce(phi) == [op |-> "at-most-once", name |-> "", args |-> <<phi>>]
SometimeBefore(phi, psi) == [op |-> "sometime-before", name |-> "", args |-> <<phi, psi>>]
SometimeAfter(phi, psi) == [op |-> "sometime-after", name |-> "", args |-> <<phi, psi>>]

is_true(e) == e.op = "true"
is_false(e) == e.op = "false"
is_fluent_exp(e) == e.op = "fluent"
is_not(e) == e.op = "not"
is_and(e) == e.op = "and"
is_or(e) == e.op = "or"
is_always(e) == e.op = "always"
is_sometime(e) == e.op = "sometime"
is_at_most_once(e) == e.op = "at-most-once"
is_sometime_before(e) == e.op = "sometime-before"
is_sometime_after(e) == e.op = "sometime-after"

---------------------------------------------------------------------------
(* Sequence helpers.                                                       *)

\* The sequence f, enumerated once (a function expression is otherwise
\* evaluated anew at every application).
Tuple(f) == f \o <<>>

RECURSIVE Flatten(_)
Flatten(ss) == IF Len(ss) = 0 THEN <<>> ELSE Head(ss) \o Flatten(Tail(ss))

Range(s) == {s[i] : i \in 1..Len(s)}

\* Order-preserving removal of repeated elements (first occurrence kept).
Dedup(s) ==
    LET keep == {i \in 1..Len(s) : \A j \in 1..(i - 1) : s[j] # s[i]}
        RECURSIVE Pick(_)
        Pick(i) == IF i > Len(s) THEN <<>>
                   ELSE (IF i \in keep THEN <<s[i]>> ELSE <<>>) \o Pick(i + 1)
    IN Pick(1)

---------------------------------------------------------------------------
(* Simplifier of the expression substrate.                                 *)

walk_not(x) ==
    IF is_true(x) THEN FF
    ELSE IF is_false(x) THEN TT
    ELSE IF is_not(x) THEN x.args[1]
    ELSE Not(x)

walk_and(args) ==
    LET flat == Flatten(Tuple([i \in 1..Len(args) |->
                    IF is_and(args[i]) THEN args[i].args ELSE <<args[i]>>]))
        kept == Dedup(SelectSeq(flat, LAMBDA a : ~is_true(a)))
    IN IF \E i \in 1..Len(flat) : is_false(flat[i]) THEN FF
       ELSE IF \E i, j \in 1..Len(kept) : kept[j] = walk_not(kept[i]) THEN FF
       ELSE And(kept)

walk_or(args) ==
    LET flat == Flatten(Tuple([i \in 1..Len(args) |->
                    IF is_or(args[i]) THEN args[i].args ELSE <<args[i]>>]))
        kept == Dedup(SelectSeq(flat, LAMBDA a : ~is_false(a)))
    IN IF \E i \in 1..Len(flat) : is_true(flat[i]) THEN TT
       ELSE IF \E i, j \in 1..Len(kept) : kept[j] = walk_not(kept[i]) THEN TT
       ELSE Or(kept)

RECURSIVE simplify(_)
simplify(e) ==
    LET sargs == Tuple([i \in 1..Len(e.args) |-> simplify(e.args[i])])
    IN IF is_not(e) THEN walk_not(sargs[1])
       ELSE IF is_and(e) THEN walk_and(sargs)
       ELSE IF is_or(e) THEN walk_or(sargs)
       ELSE IF Len(e.args) = 0 THEN e
       ELSE [e EXCEPT !.args = sargs]

\* Substituter.substitute(e, I): every fluent that is a key of I is replaced
\* by its value in I.
RECURSIVE substitute(_, _)
substitute(e, I) ==
    IF is_fluent_exp(e) THEN (IF e.name \in DOMAIN I THEN I[e.name] ELSE e)
    ELSE IF Len(e.args) = 0 THEN e
    ELSE [e EXCEPT !.args = Tuple([i \in 1..Len(e.args) |-> substitute(e.args[i], I)])]

\* Fluents occurring in an expression (free_vars_extractor.get).
RECURSIVE free_vars(_)
free_vars(e) ==
    IF is_fluent_exp(e) THEN {e.name}
    ELSE UNION {free_vars(e.args[i]) : i \in 1..Len(e.args)}

---------------------------------------------------------------------------
(* Model of the grounded problem: effects, actions, states.                *)

Effect(cond, f, v) == [condition |-> cond, fluent |-> f, value |-> v]
Action(n, pre, effs) == [name |-> n, preconditions |-> pre, effects |-> effs]

\* The literal an effect asserts: its fluent, or the negation of its fluent
\* when its value is false.
EffLiteral(eff) ==
    IF eff.value THEN FluentExp(eff.fluent) ELSE Not(FluentExp(eff.fluent))

---------------------------------------------------------------------------
(* Regressor.                                                              *)

\* _gamma that answers true when no effect asserts the literal.
_gamma_true_when_none(literal, action) ==
    LET hits == SelectSeq(action.effects, LAMBDA eff : EffLiteral(eff) = literal)
        disjunction == Tuple([i \in 1..Len(hits) |-> hits[i].condition])
    IN IF \E i \in 1..Len(hits) : is_true(hits[i].condition) THEN TT
       ELSE IF Len(disjunction) = 0 THEN TT
       ELSE Or(disjunction)

_gamma(literal, action) ==
    LET hits == SelectSeq(action.effects, LAMBDA eff : EffLiteral(eff) = literal)
        disjunction == Tuple([i \in 1..Len(hits) |-> hits[i].condition])
    IN IF \E i \in 1..Len(hits) : is_true(hits[i].condition) THEN TT
       ELSE IF Len(disjunction) = 0 THEN FF
       ELSE Or(disjunction)

\* _gamma_substitution that keeps the literal whatever the action deletes.
_gamma_substitution_keep(literal, action) ==
    Or(<<_gamma(literal, action), literal>>)

_gamma_substitution(literal, action) ==
    LET negated_literal == Not(literal)
        gamma1 == _gamma(literal, action)
        gamma2 == Not(_gamma(negated_literal, action))
        conjunction == And(<<literal, gamma2>>)
    IN Or(<<gamma1, conjunction>>)

\* Expressions are built from constants, fluents, not, and, or only; the
\* UPUsageError branch of the code is not reachable from them.
RECURSIVE _regression(_, _)
_regression(phi, action) ==
    IF is_false(phi) \/ is_true(phi) THEN phi
    ELSE IF is_fluent_exp(phi) THEN _gamma_substitution(phi, action)
    ELSE IF is_or(phi) THEN
        Or(Tuple([i \in 1..Len(phi.args) |-> _regression(phi.args[i], action)]))
    ELSE IF is_and(phi) THEN
        And(Tuple([i \in 1..Len(phi.args) |-> _regression(phi.args[i], action)]))
    ELSE Not(_regression(phi.args[1], action))

---------------------------------------------------------------------------
(* Per-constraint rewriter.  Each _manage_* operator yields the added      *)
(* precondition (with to_add) and the effects it appends to E.             *)

_add_cond_eff(cond, eff) ==
    IF ~is_false(simplify(cond)) THEN
        IF is_not(eff) THEN <<Effect(cond, eff.args[1].name, FALSE)>>
        ELSE <<Effect(cond, eff.name, TRUE)>>
    ELSE <<>>

Rewrite(pre, add, E) == [precondition |-> pre, to_add |-> add, E |-> E]

\* _manage_sa_compilation whose reset effect forgets "and not R2".
_manage_sa_compilation_reset_on_R1(phi, psi, m_atom, a) ==
    LET R1 == simplify(_regression(phi, a))
        R2 == simplify(_regression(psi, a))
        cond == simplify(And(<<R1>>))
        reset == IF phi # R1 \/ psi # R2 THEN _add_cond_eff(cond, Not(m_atom)) ELSE <<>>
        set == IF psi # R2 THEN _add_cond_eff(R2, m_atom) ELSE <<>>
    IN Rewrite(TT, FALSE, reset \o set)

_manage_sa_compilation(phi, psi, m_atom, a) ==
    LET R1 == simplify(_regression(phi, a))
        R2 == simplify(_regression(psi, a))
        cond == simplify(And(<<R1, Not(R2)>>))
        reset == IF phi # R1 \/ psi # R2 THEN _add_cond_eff(cond, Not(m_atom)) ELSE <<>>
        set == IF psi # R2 THEN _add_cond_eff(R2, m_atom) ELSE <<>>
    IN Rewrite(TT, FALSE, reset \o set)

_manage_sometime_compilation(phi, m_atom, a) ==
    LET R == simplify(_regression(phi, a))
    IN Rewrite(TT, FALSE, IF R # phi THEN _add_cond_eff(R, m_atom) ELSE <<>>)

_manage_sb_compilation(phi, psi, m_atom, a) ==
    LET R_phi == simplify(_regression(phi, a))
        rho == simplify(Or(<<Not(R_phi), m_atom>>))
        R_psi == simplify(_regression(psi, a))
        E == IF R_psi # psi THEN _add_cond_eff(R_psi, m_atom) ELSE <<>>
    IN IF R_phi = phi THEN Rewrite(TT, FALSE, E) ELSE Rewrite(rho, TRUE, E)

_manage_amo_compilation(phi, m_atom, a) ==
    LET R == simplify(_regression(phi, a))
        rho == simplify(Or(<<Not(R), Not(m_atom), phi>>))
    IN IF R = phi THEN Rewrite(TT, FALSE, <<>>)
       ELSE Rewrite(rho, TRUE, _add_cond_eff(R, m_atom))

_manage_always_compilation(phi, a) ==
    LET R == simplify(_regression(phi, a))
    IN IF R = phi THEN Rewrite(TT, FALSE, <<>>) ELSE Rewrite(R, TRUE, <<>>)

---------------------------------------------------------------------------
(* Relevancy index.                                                        *)

\* relevancy_dict[f]: the constraints of C mentioning fluent f, in C order.
_build_relevancy_dict(C) ==
    [f \in UNION {free_vars(C[i]) : i \in 1..Len(C)} |->
        SelectSeq(C, LAMBDA c : f \in free_vars(c))]

_get_relevant_constraints(a, relevancy_dict) ==
    Dedup(Flatten(Tuple([i \in 1..Len(a.effects) |->
        IF a.effects[i].fluent \in DOMAIN relevancy_dict
        THEN relevancy_dict[a.effects[i].fluent] ELSE <<>>])))

---------------------------------------------------------------------------
(* Constraint normaliser.  The constraints are quantifier-free, so         *)
(* _remove_quantifier leaves each of them as it is.                        *)

_remove_quantifier(C) == C

_build_constraint_list(constraints) ==
    LET C_temp == simplify(And(constraints))
        C_list == IF is_and(C_temp) THEN C_temp.args ELSE <<C_temp>>
        C_to_return == simplify(And(_remove_quantifier(C_list)))
    IN IF is_and(C_to_return) THEN C_to_return.args ELSE <<C_to_return>>

---------------------------------------------------------------------------
(* Monitoring-atom allocator.                                              *)

\* I: the fluents written by some effect of some action whose initial
\* value is true, each mapped to that value.
_ground_initial_state(actions, initial_values) ==
    LET grounding_init_state ==
            UNION {{actions[i].effects[j].fluent : j \in 1..Len(actions[i].effects)}
                   : i \in 1..Len(actions)}
    IN [key_gr \in {f \in grounding_init_state : f \in initial_values} |-> TT]

\* Python's "x or y" on objects: x when x is truthy.  An expression node
\* defines neither __bool__ nor __len__, so it is always truthy and y is
\* never evaluated.
py_or(x, y) == x

\* Python's "not x" on an (always truthy) expression node: the bool False.
py_not(x) == FF

\* [type, value, raised]: raised when constr has no argument (args[0]
\* of a constant is an IndexError).
_evaluate_constraint(constr, init_values) ==
    IF Len(constr.args) = 0 THEN
        [type |-> "None", value |-> FF, raised |-> TRUE]
    ELSE IF is_sometime(constr) THEN
        [type |-> HOLD, raised |-> FALSE,
         value |-> simplify(substitute(constr.args[1], init_values))]
    ELSE IF is_sometime_after(constr) THEN
        [type |-> HOLD, raised |-> FALSE,
         value |-> py_or(simplify(substitute(constr.args[2], init_values)),
                         py_not(simplify(substitute(constr.args[1], init_values))))]
    ELSE IF is_sometime_before(constr) THEN
        [type |-> SEEN_PSI, raised |-> FALSE,
         value |-> simplify(substitute(constr.args[2], init_values))]
    ELSE IF is_at_most_once(constr) THEN
        [type |-> SEEN_PHI, raised |-> FALSE,
         value |-> simplify(substitute(constr.args[1], init_values))]
    ELSE
        [type |-> "None", raised |-> FALSE,
         value |-> simplify(substitute(constr.args[1], init_values))]

\* MonitorName with the counter read one too high.
MonitorNameFromOne(type, counter) == type \o SEPARATOR \o ToString(counter + 1)

MonitorName(type, counter) == type \o SEPARATOR \o ToString(counter)

\* d with key k bound to v (a Python dict assignment).
DictSet(d, k, v) == (k :> v) @@ d

\* One iteration of the loop over C, from the loop state st =
\* [status, counter, monitoring_atoms, initial_state_prime, dict].
MonitoringStep(st, constr, I) ==
    IF is_always(constr) THEN
        IF is_false(simplify(substitute(constr.args[1], I)))
        THEN [st EXCEPT !.status = "always_violated"]
        ELSE st
    ELSE
        LET ev == _evaluate_constraint(constr, I)
            monitoring_atom == MonitorName(ev.type, st.counter)
            allocated ==
                [st EXCEPT
                    !.monitoring_atoms = Append(@, monitoring_atom),
                    !.dict = DictSet(@, constr, monitoring_atom),
                    !.initial_state_prime =
                        IF is_true(ev.value) THEN Append(@, monitoring_atom) ELSE @]
        IN IF ev.raised THEN [st EXCEPT !.status = "IndexError"]
           ELSE IF is_sometime_before(constr)
                   /\ is_true(simplify(substitute(constr.args[1], I)))
           THEN [allocated EXCEPT !.status = "sometime_before_violated"]
           ELSE [allocated EXCEPT !.counter = @ + 1]

RECURSIVE MonitoringLoop(_, _, _, _)
MonitoringLoop(st, C, I, i) ==
    IF i > Len(C) \/ st.status # "ok" THEN st
    ELSE MonitoringLoop(MonitoringStep(st, C[i], I), C, I, i + 1)

_get_monitoring_atoms(dict, C, I) ==
    MonitoringLoop([status |-> "ok", counter |-> 0, monitoring_atoms |-> <<>>,
                    initial_state_prime |-> <<>>, dict |-> dict], C, I, 1)

\* _get_landmark_constraints that also yields the sometime-before constraints.
_get_landmark_constraints_sb(C) ==
    SelectSeq(C, LAMBDA constr : is_sometime(constr) \/ is_sometime_after(constr)
                                 \/ is_sometime_before(constr))

_get_landmark_constraints(C) ==
    SelectSeq(C, LAMBDA constr : is_sometime(constr) \/ is_sometime_after(constr))

---------------------------------------------------------------------------
(* _compile.                                                               *)

\* The dispatch on the kind of a relevant constraint c for action a.
ManageConstraint(c, a, dict) ==
    IF is_always(c) THEN _manage_always_compilation(c.args[1], a)
    ELSE IF is_at_most_once(c) THEN
        _manage_amo_compilation(c.args[1], FluentExp(dict[c]), a)
    ELSE IF is_sometime_before(c) THEN
        _manage_sb_compilation(c.args[1], c.args[2], FluentExp(dict[c]), a)
    ELSE IF is_sometime(c) THEN
        _manage_sometime_compilation(c.args[1], FluentExp(dict[c]), a)
    ELSE _manage_sa_compilation(c.args[1], c.args[2], FluentExp(dict[c]), a)

\* The body of "for a in A": a with the added preconditions and effects.
RewriteAction(a, relevancy_dict, dict) ==
    LET relevant_constraints == _get_relevant_constraints(a, relevancy_dict)
        n == Len(relevant_constraints)
        rw == Tuple([i \in 1..n |-> ManageConstraint(relevant_constraints[i], a, dict)])
        adds(i) ==
            LET c == relevant_constraints[i]
            IN IF (is_always(c) \/ is_at_most_once(c) \/ is_sometime_before(c))
                  /\ rw[i].to_add /\ ~is_true(rw[i].precondition)
               THEN <<rw[i].precondition>> ELSE <<>>
    IN Action(a.name,
              a.preconditions \o Flatten(Tuple([i \in 1..n |-> adds(i)])),
              a.effects \o Flatten(Tuple([i \in 1..n |-> rw[i].E])))

\* Survives without the test.
SurvivesAlways(a) == TRUE

\* "if FALSE not in a.preconditions: A_prime.append(a)".
Survives(a) == \A i \in 1..Len(a.preconditions) : a.preconditions[i] # FF

NoProblem ==
    [fluents |-> <<>>, init |-> {}, actions |-> <<>>, goals |-> <<>>,
     trajectory_constraints |-> <<>>]

\* Problem.add_goal: the constant true is not recorded as a goal.
add_goal(goal) == IF is_true(goal) THEN <<>> ELSE <<goal>>

\* G_new: the goals and the monitors of the landmark constraints.
NewGoal(goals, C, dict) ==
    LET landmarks == _get_landmark_constraints(C)
        G_prime == And(Tuple([i \in 1..Len(landmarks) |-> FluentExp(dict[landmarks[i]])]))
    IN simplify(And(goals \o <<G_prime>>))

\* The actions of A after the loop "for a in A", pruned ones included.
Rewritten(A, relevancy_dict, dict) ==
    Tuple([i \in 1..Len(A) |-> RewriteAction(A[i], relevancy_dict, dict)])

\* The problem returned by _compile.  rewritten and C are the values of the
\* local variables, kept next to it.
Assemble(prob, C, mon, rewritten) ==
    [status |-> "ok", dict |-> mon.dict, C |-> C, rewritten |-> rewritten,
     problem |->
        [fluents |-> mon.monitoring_atoms,
         init |-> prob.init \cup Range(mon.initial_state_prime),
         actions |-> SelectSeq(rewritten, Survives),
         goals |-> add_goal(NewGoal(prob.goals, C, mon.dict)),
         trajectory_constraints |-> <<>>]]

\* _compile from the outcome mon of _get_monitoring_atoms on: an exception
\* raised there ends the call.
Finish(prob, C, mon) ==
    IF mon.status # "ok" THEN
        [status |-> mon.status, dict |-> mon.dict, C |-> C, rewritten |-> <<>>,
         problem |-> NoProblem]
    ELSE
        CHOOSE r \in {Assemble(prob, C, mon, rewritten) :
                        rewritten \in {Rewritten(prob.actions, _build_relevancy_dict(C),
                                                 mon.dict)}} : TRUE

\* _compile from the constraint list C on.
Allocate(dict, prob, C) ==
    CHOOSE r \in {Finish(prob, C, mon) :
                    mon \in {_get_monitoring_atoms(dict, C,
                                _ground_initial_state(prob.actions, prob.init))}} : TRUE

\* [status, dict, C, rewritten, problem]: the outcome of compile on prob,
\* starting from the instance's dict.  (Each local variable of the source is
\* bound once, by a quantification over the singleton of its value.)
_compile(dict, prob) ==
    CHOOSE r \in {Allocate(dict, prob, C) :
                    C \in {_build_constraint_list(prob.trajectory_constraints)}} : TRUE

---------------------------------------------------------------------------
(* Semantics of grounded problems and of trajectory constraints.           *)

RECURSIVE Eval(_, _)
Eval(e, s) ==
    IF is_true(e) THEN TRUE
    ELSE IF is_false(e) THEN FALSE
    ELSE IF is_fluent_exp(e) THEN e.name \in s
    ELSE IF is_not(e) THEN ~Eval(e.args[1], s)
    ELSE IF is_and(e) THEN \A i \in 1..Len(e.args) : Eval(e.args[i], s)
    ELSE \E i \in 1..Len(e.args) : Eval(e.args[i], s)

HoldsAll(es, s) == \A i \in 1..Len(es) : Eval(es[i], s)

\* An effect fires iff its condition holds in s; the fired effects are
\* applied together.
ApplyAction(a, s) ==
    LET fired == {i \in 1..Len(a.effects) : Eval(a.effects[i].condition, s)}
        adds == {a.effects[i].fluent : i \in {j \in fired : a.effects[j].value}}
        dels == {a.effects[i].fluent : i \in {j \in fired : ~a.effects[j].value}}
    IN (s \ dels) \cup adds

\* Whether the state trajectory tr satisfies the trajectory constraint c.
Satisfies(tr, c) ==
    LET n == Len(tr)
        phi(i) == Eval(c.args[1], tr[i])
        psi(i) == Eval(c.args[2], tr[i])
    IN IF is_always(c) THEN \A i \in 1..n : phi(i)
       ELSE IF is_sometime(c) THEN \E i \in 1..n : phi(i)
       ELSE IF is_at_most_once(c) THEN
           \A i \in 1..n : phi(i) =>
               \E j \in i..n : /\ \A k \in i..j : phi(k)
                               /\ \A k \in (j + 1)..n : ~phi(k)
       ELSE IF is_sometime_before(c) THEN
           \A i \in 1..n : phi(i) => \E j \in 1..(i - 1) : psi(j)
       ELSE \A i \in 1..n : phi(i) => \E j \in i..n : psi(j)

SatisfiesAll(tr, cs) == \A i \in 1..Len(cs) : Satisfies(tr, cs[i])

---------------------------------------------------------------------------
(* The problems handed to the compiler.                                    *)

MaxConstraints == 2
MaxPlan == 2

P == FluentExp("p")
Q == FluentExp("q")
Fluents == {"p", "q"}

Constraints ==
    {Always(P), Always(Not(P)), Always(Or(<<P, Q>>)),
     Sometime(P), Sometime(Not(P)),
     AtMostOnce(P),
     SometimeBefore(P, Q),
     SometimeAfter(P, Q)}

\* Sequences without repetition of at most n elements of S.
SeqsUpTo(S, n) ==
    {t \in UNION {[1..m -> S] : m \in 0..n} :
        \A i, j \in 1..Len(t) : i # j => t[i] # t[j]}

ConstraintLists == SeqsUpTo(Constraints, MaxConstraints)

\* Grounded actions.
set_p == Action("set_p", <<>>, <<Effect(TT, "p", TRUE)>>)
unset_p == Action("unset_p", <<P>>, <<Effect(TT, "p", FALSE)>>)
set_q == Action("set_q", <<>>, <<Effect(TT, "q", TRUE)>>)
flip == Action("flip", <<>>, <<Effect(Q, "p", TRUE), Effect(TT, "q", FALSE)>>)
cond_q == Action("cond_q", <<>>, <<Effect(Not(P), "q", TRUE)>>)

ActionLists ==
    {<<set_p, unset_p, set_q>>, <<set_p, set_q>>, <<set_q>>, <<flip, set_q>>,
     <<set_p, cond_q>>}

GoalLists == {<<>>, <<Q>>, <<P, Q>>, <<P, Not(P)>>}

Problems ==
    [init : SUBSET Fluents, actions : ActionLists, goals : GoalLists,
     trajectory_constraints : ConstraintLists]

\* The problems handed to an instance that is used for several calls.
ReuseConstraints ==
    {Always(P), Sometime(P), AtMostOnce(P), SometimeBefore(P, Q), SometimeAfter(P, Q)}

ReuseProblems ==
    [init : {{}}, actions : {<<set_p, set_q>>}, goals : {<<Q>>},
     trajectory_constraints : SeqsUpTo(ReuseConstraints, MaxConstraints)]

---------------------------------------------------------------------------
(* The compiler instance and the execution of plans.                       *)

NoResult == [status |-> "none", C |-> <<>>, rewritten |-> <<>>, problem |-> NoProblem]

NoRun == /\ traj' = <<>>
         /\ outState' = {}
         /\ outOk' = FALSE

\* __init__: the instance's dict is empty.
Fresh ==
    /\ pc = "ready"
    /\ monitoring_atom_dict = <<>>
    /\ result = NoResult
    /\ traj = <<>>
    /\ outState = {}
    /\ outOk = FALSE

Init == problem \in Problems /\ Fresh

\* compile(problem): the whole of _compile on the instance.
Compile ==
    /\ pc = "ready"
    /\ \E r \in {_compile(monitoring_atom_dict, problem)} :
          /\ monitoring_atom_dict' = r.dict
          /\ result' = [status |-> r.status, C |-> r.C, rewritten |-> r.rewritten,
                         problem |-> r.problem]
          /\ pc' = IF r.status = "ok" THEN "compiled" ELSE "failed"
          /\ IF r.status = "ok"
             THEN /\ traj' = <<problem.init>>
                  /\ outState' = r.problem.init
                  /\ outOk' = TRUE
             ELSE NoRun
    /\ UNCHANGED problem

\* The rewritten counterpart of the grounded action named n, if it survived.
OutActions(n) == SelectSeq(result.problem.actions, LAMBDA b : b.name = n)

\* One more step of a plan: grounded action i is applied on the original
\* problem and, while the plan is executable there, on the output problem.
Apply(i) ==
    /\ pc = "compiled"
    /\ Len(traj) <= MaxPlan
    /\ LET a == problem.actions[i]
           s == traj[Len(traj)]
           bs == OutActions(a.name)
           runs == outOk /\ Len(bs) = 1 /\ HoldsAll(bs[1].preconditions, outState)
       IN /\ HoldsAll(a.preconditions, s)
          /\ traj' = Append(traj, ApplyAction(a, s))
          /\ outOk' = runs
          /\ outState' = IF runs THEN ApplyAction(bs[1], outState) ELSE outState
    /\ UNCHANGED <<problem, pc, monitoring_atom_dict, result>>

\* The caller hands the same instance another problem; only the dict of the
\* instance outlives the call.
NewProblem(pr) ==
    /\ pc # "ready"
    /\ problem' = pr
    /\ pc' = "ready"
    /\ result' = NoResult
    /\ NoRun
    /\ UNCHANGED monitoring_atom_dict

Next == Compile \/ \E i \in 1..Len(problem.actions) : Apply(i)

Spec == Init /\ [][Next]_vars

InitReuse == problem \in ReuseProblems /\ Fresh

NextReuse == Compile \/ \E pr \in ReuseProblems : NewProblem(pr)

SpecReuse == InitReuse /\ [][NextReuse]_vars

---------------------------------------------------------------------------
(* The regressor on its own: _regression and the per-constraint rewriters  *)
(* applied to a formula, a grounded action and a state.                    *)

MaxDepth == 2

Atoms == {TT, FF, P, Q}

\* Formulas over constants, fluents, not, and, or of depth at most n.
RECURSIVE FormulasUpTo(_)
FormulasUpTo(n) ==
    IF n = 0 THEN Atoms
    ELSE LET F == FormulasUpTo(n - 1)
         IN F \cup {Not(x) : x \in F}
              \cup {And(<<x, y>>) : x \in F, y \in Atoms}
              \cup {Or(<<x, y>>) : x \in F, y \in Atoms}

\* Grounded actions with conditional effects.
toggle == Action("toggle", <<>>, <<Effect(P, "p", FALSE), Effect(Not(P), "p", TRUE)>>)
clash == Action("clash", <<>>, <<Effect(TT, "p", TRUE), Effect(Q, "p", FALSE)>>)

RegressActions == {set_p, unset_p, set_q, flip, cond_q, toggle, clash}

RegressInputs ==
    [phi : FormulasUpTo(MaxDepth), action : RegressActions, s : SUBSET Fluents]

\* The fluents written by the effects of a.
Written(a) == {a.effects[i].fluent : i \in 1..Len(a.effects)}

InitRegress == problem \in RegressInputs /\ Fresh

\* _regression(phi, action), and the rewriters on the normalised phi with
\* monitoring atom hold-0 (the formulas of C are simplified by
\* _build_constraint_list before they reach the rewriters).
Regress ==
    /\ pc = "ready"
    /\ \E n \in {simplify(problem.phi)} :
       \E m \in {FluentExp(MonitorName(HOLD, 0))} :
          result' = [status |-> "regressed",
                     R |-> _regression(problem.phi, problem.action),
                     rewrites |->
                        <<_manage_always_compilation(n, problem.action),
                          _manage_sometime_compilation(n, m, problem.action),
                          _manage_amo_compilation(n, m, problem.action),
                          _manage_sb_compilation(n, n, m, problem.action),
                          _manage_sa_compilation(n, n, m, problem.action)>>]
    /\ pc' = "regressed"
    /\ UNCHANGED <<problem, monitoring_atom_dict, traj, outState, outOk>>

NextRegress == Regress

SpecRegress == InitRegress /\ [][NextRegress]_vars

---------------------------------------------------------------------------
(* Properties.                                                             *)

Last(tr) == tr[Len(tr)]

\* The conjuncts of the output problem's goal.
GoalConjuncts ==
    LET g == result.problem.goals
    IN IF Len(g) = 0 THEN <<>> ELSE IF is_and(g[1]) THEN g[1].args ELSE g

\* The monitoring atom the instance holds for constraint c.
Monitor(c) == FluentExp(monitoring_atom_dict[c])

\* Some always(phi) of C has phi false in the initial state.
AlwaysViolatedInitially ==
    \E i \in 1..Len(result.C) :
        is_always(result.C[i]) /\ ~Eval(result.C[i].args[1], problem.init)

\* Some sometime-before(phi, psi) of C has phi true in the initial state.
SometimeBeforeViolatedInitially ==
    \E i \in 1..Len(result.C) :
        is_sometime_before(result.C[i]) /\ Eval(result.C[i].args[1], problem.init)

\* C1 (soundness): after a successful compile, every plan that is executable
\* in the output problem and ends in a state satisfying the output goal
\* yields, on the original problem, a trajectory that satisfies every
\* original trajectory constraint and ends in a state satisfying the
\* original goal.
C1_Soundness ==
    (pc = "compiled" /\ outOk /\ HoldsAll(result.problem.goals, outState))
        => /\ SatisfiesAll(traj, problem.trajectory_constraints)
           /\ HoldsAll(problem.goals, Last(traj))

\* C2 (completeness): after a successful compile, every plan that is
\* executable on the original problem, reaches the original goal and whose
\* trajectory satisfies every original trajectory constraint is executable in
\* the output problem and ends in a state satisfying the output goal.
C2_Completeness ==
    (/\ pc = "compiled"
     /\ HoldsAll(problem.goals, Last(traj))
     /\ SatisfiesAll(traj, problem.trajectory_constraints))
        => outOk /\ HoldsAll(result.problem.goals, outState)

\* C3: when C contains always(phi) with phi false in the initial state (and
\* no sometime-before constraint is violated there, which would raise the
\* other error), compile fails with the always violation and returns no
\* problem.
C3_AlwaysViolationRaised ==
    (pc # "ready" /\ AlwaysViolatedInitially /\ ~SometimeBeforeViolatedInitially)
        => result.status = "always_violated" /\ result.problem = NoProblem

\* C4: when C contains sometime-before(phi, psi) with phi true in the initial
\* state (and no always constraint is violated there, which would raise the
\* other error), compile fails with the sometime-before violation and returns
\* no problem.
C4_SometimeBeforeViolationRaised ==
    (pc # "ready" /\ SometimeBeforeViolatedInitially /\ ~AlwaysViolatedInitially)
        => result.status = "sometime_before_violated" /\ result.problem = NoProblem

\* C5: compiling a problem without trajectory constraints succeeds; the
\* output has the actions, the initial values and the goals of the input and
\* no new fluent.
C5_NoConstraintsIdentity ==
    (pc # "ready" /\ problem.trajectory_constraints = <<>>)
        => /\ result.status = "ok"
           /\ result.problem.actions = problem.actions
           /\ result.problem.init = problem.init
           /\ result.problem.fluents = <<>>
           /\ \A s \in SUBSET Fluents :
                  HoldsAll(result.problem.goals, s) <=> HoldsAll(problem.goals, s)

\* C6: after a successful compile, the monitor of every sometime-after(phi,
\* psi) of C is initially true exactly when psi holds or phi does not hold in
\* the initial state.
C6_SometimeAfterInitialValue ==
    pc = "compiled" =>
        \A i \in 1..Len(result.C) :
            is_sometime_after(result.C[i]) =>
                (monitoring_atom_dict[result.C[i]] \in result.problem.init
                    <=> (Eval(result.C[i].args[2], problem.init)
                         \/ ~Eval(result.C[i].args[1], problem.init)))

\* The monitoring atoms of the sometime and sometime-after constraints of C,
\* in the order of C.
LandmarkMonitors ==
    LET L == SelectSeq(result.C, LAMBDA c : c.op \in {"sometime", "sometime-after"})
    IN [i \in 1..Len(L) |-> Monitor(L[i])]

\* The conjuncts of the output goal end with the landmark monitors, in the
\* order of C (whatever comes from the original goals precedes them), and
\* none of them is the monitor of an at-most-once or sometime-before
\* constraint.
GoalEndsWithLandmarks ==
    LET G == GoalConjuncts
        M == LandmarkMonitors
    IN /\ Len(G) >= Len(M)
       /\ \A i \in 1..Len(M) : G[Len(G) - Len(M) + i] = M[i]
       /\ \A i \in 1..Len(result.C) :
              result.C[i].op \in {"at-most-once", "sometime-before"}
                  => \A j \in 1..Len(G) : G[j] # Monitor(result.C[i])

\* The original goals contradict each other.
ContradictoryGoals == is_false(simplify(And(problem.goals)))

\* C7 as stated: after every successful compile the output goal is a
\* conjunction holding the monitor of every sometime and sometime-after
\* constraint of C, after the original goals and in the order of C, and no
\* monitor of an at-most-once or sometime-before constraint.
C7_GoalHoldsLandmarks == pc = "compiled" => GoalEndsWithLandmarks

\* C7 as amended: the same, unless the original goals contradict each other,
\* in which case the output goal is the constant false.
C7_GoalHoldsLandmarksUnlessFalse ==
    pc = "compiled" =>
        IF ContradictoryGoals THEN result.problem.goals = <<FF>>
        ELSE GoalEndsWithLandmarks

\* A successful compile of consistent goals <<p, q>> with two landmark
\* constraints.
C7_Witness ==
    /\ pc = "compiled"
    /\ problem.goals = <<P, Q>>
    /\ Len(LandmarkMonitors) = 2
    /\ Len(GoalConjuncts) = 4

\* C8: in the output problem no action has false among its preconditions; a
\* grounded action is absent from the output exactly when its rewriting added
\* a precondition that simplifies to false, and the surviving actions keep
\* their relative order.
C8_Pruning ==
    pc = "compiled" =>
        LET A == problem.actions
            rw == result.rewritten
            out == result.problem.actions
            AddsFalse(i) ==
                \E k \in (Len(A[i].preconditions) + 1)..Len(rw[i].preconditions) :
                    is_false(simplify(rw[i].preconditions[k]))
            kept == {i \in 1..Len(A) : ~AddsFalse(i)}
        IN /\ Len(rw) = Len(A)
           /\ \A j \in 1..Len(out) : \A k \in 1..Len(out[j].preconditions) :
                  ~is_false(out[j].preconditions[k])
           /\ Len(out) = Cardinality(kept)
           /\ \A j \in 1..Len(out) : \E i \in kept : out[j] = rw[i]
           /\ \A i \in kept : \E j \in 1..Len(out) : out[j] = rw[i]
           /\ \A j1, j2 \in 1..Len(out) : j1 < j2 =>
                  \E i1, i2 \in kept :
                      i1 < i2 /\ out[j1] = rw[i1] /\ out[j2] = rw[i2]

\* A successful compile that pruned the second of three actions.
C8_Witness ==
    /\ pc = "compiled"
    /\ Len(problem.actions) = 3
    /\ Len(result.problem.actions) = 2
    /\ result.problem.actions[1].name = "set_p"
    /\ result.problem.actions[2].name = "set_q"

\* C9: after any sequence of compile calls on one instance, no two distinct
\* constraints held in the instance's dict are mapped to the same monitoring
\* atom.
C9_DictInjective ==
    \A c1, c2 \in DOMAIN monitoring_atom_dict :
        c1 # c2 => monitoring_atom_dict[c1] # monitoring_atom_dict[c2]

\* The tag of the monitor of a non-always constraint.
Tag(c) ==
    IF c.op \in {"sometime", "sometime-after"} THEN "hold"
    ELSE IF c.op = "sometime-before" THEN "seen-psi"
    ELSE "seen-phi"

\* C10: in every successful compile call, the i-th non-always constraint of C
\* (from 0) receives the monitor named <tag>-i, whatever the earlier calls on
\* the instance allocated, and the monitor names of the call are pairwise
\* distinct.
C10_MonitorNames ==
    pc = "compiled" =>
        LET NA == SelectSeq(result.C, LAMBDA c : c.op # "always")
            F == result.problem.fluents
        IN /\ Len(F) = Len(NA)
           /\ \A i \in 1..Len(NA) :
                  /\ F[i] = Tag(NA[i]) \o "-" \o ToString(i - 1)
                  /\ monitoring_atom_dict[NA[i]] = F[i]
           /\ \A i, j \in 1..Len(F) : i # j => F[i] # F[j]

\* A successful call with an always constraint ahead of a non-always one, on
\* an instance whose earlier call allocated the same monitor name to another
\* constraint.
C10_Witness ==
    /\ pc = "compiled"
    /\ Len(result.C) = 2
    /\ is_always(result.C[1])
    /\ Len(result.problem.fluents) = 1
    /\ \E c \in DOMAIN monitoring_atom_dict :
           /\ \A i \in 1..Len(result.C) : result.C[i] # c
           /\ monitoring_atom_dict[c] = result.problem.fluents[1]

\* C11: for every formula psi and every grounded action a none of whose
\* effects writes a fluent of psi, simplify(regress(psi, a)) is simplify(psi),
\* and no rewriter adds a precondition or an effect to a for psi.
C11_RegressionFixedPoint ==
    (pc = "regressed" /\ free_vars(problem.phi) \cap Written(problem.action) = {})
        => /\ simplify(result.R) = simplify(problem.phi)
           /\ \A i \in 1..Len(result.rewrites) :
                  ~result.rewrites[i].to_add /\ result.rewrites[i].E = <<>>

\* A contradiction over p, regressed through an action that writes q only.
C11_Witness ==
    /\ pc = "regressed"
    /\ problem.phi = And(<<Not(P), P>>)
    /\ problem.action = set_q
    /\ result.R # problem.phi

\* No two effects of a that fire in s assign opposite values to one fluent.
NonConflicting(a, s) ==
    \A i, j \in 1..Len(a.effects) :
        (/\ Eval(a.effects[i].condition, s)
         /\ Eval(a.effects[j].condition, s)
         /\ a.effects[i].fluent = a.effects[j].fluent)
            => a.effects[i].value = a.effects[j].value

\* C12: for every state s, formula phi and grounded action a whose firing
\* effects do not conflict in s, regress(phi, a) holds in s exactly when phi
\* holds in the state reached by applying a in s.
C12_WeakestPrecondition ==
    (pc = "regressed" /\ NonConflicting(problem.action, problem.s))
        => (Eval(result.R, problem.s)
                <=> Eval(problem.phi, ApplyAction(problem.action, problem.s)))

\* A formula over both fluents regressed through an action whose conditional
\* effect fires and changes its value.
C12_Witness ==
    /\ pc = "regressed"
    /\ problem.phi = Or(<<Not(P), Q>>)
    /\ problem.action = flip
    /\ problem.s = {"q"}
    /\ ~Eval(result.R, problem.s)

\* C13: after a successful compile, the monitor of every sometime(phi) and
\* at-most-once(phi) of C is initially true exactly when phi holds in the
\* input's initial state, and the monitor of every sometime-before(phi, psi)
\* exactly when psi holds there.
C13_MonitorInitialValues ==
    pc = "compiled" =>
        \A i \in 1..Len(result.C) :
            LET c == result.C[i]
                starts_true == monitoring_atom_dict[c] \in result.problem.init
            IN /\ c.op \in {"sometime", "at-most-once"}
                    => (starts_true <=> Eval(c.args[1], problem.init))
               /\ c.op = "sometime-before"
                    => (starts_true <=> Eval(c.args[2], problem.init))

\* The monitoring atoms of the sometime, at-most-once and sometime-before
\* constraints of C.
OneWayMonitors ==
    {monitoring_atom_dict[result.C[i]] :
        i \in {j \in 1..Len(result.C) :
                 result.C[j].op \in {"sometime", "at-most-once", "sometime-before"}}}

\* In the current state of the output problem no action has two effects on
\* one monitoring atom that fire together with opposite values, and every
\* effect on a one-way monitor assigns true.
NoConflictingMonitorEffects ==
    pc = "compiled" =>
        \A j \in 1..Len(result.problem.actions) :
            LET effs == result.problem.actions[j].effects
            IN /\ \A e1, e2 \in 1..Len(effs) :
                      (/\ effs[e1].fluent = effs[e2].fluent
                       /\ effs[e1].fluent \in Range(result.problem.fluents)
                       /\ effs[e1].value # effs[e2].value)
                          => ~(/\ Eval(effs[e1].condition, outState)
                               /\ Eval(effs[e2].condition, outState))
               /\ \A e \in 1..Len(effs) :
                      effs[e].fluent \in OneWayMonitors => effs[e].value

\* A step of the plan leaves every one-way monitor that is true true.
OneWayMonitorsStayTrue ==
    (pc = "compiled" /\ pc' = "compiled")
        => \A m \in OneWayMonitors : m \in outState => m \in outState'

\* C14: in every reachable state of the output problem no rewritten action
\* has two compiler-added effects on one monitoring atom that fire together
\* with opposite values, the monitors of sometime, at-most-once and
\* sometime-before are only assigned true, and once true they stay true.
C14_NoConflictMonotone ==
    [](NoConflictingMonitorEffects) /\ [][OneWayMonitorsStayTrue]_vars

\* Two steps into a plan of an output problem in which an action carries
\* both the reset and the set effect of a sometime-after monitor, with a
\* one-way monitor already true.
C14_Witness ==
    /\ pc = "compiled"
    /\ outOk
    /\ Len(traj) = 3
    /\ \E m \in OneWayMonitors : m \in outState
    /\ \E j \in 1..Len(result.problem.actions) :
           LET effs == result.problem.actions[j].effects
           IN \E e1, e2 \in 1..Len(effs) :
                  /\ effs[e1].fluent = effs[e2].fluent
                  /\ effs[e1].value /\ ~effs[e2].value

====
